---- MODULE Spec2Model ----
(***************************************************************************)
(* safe-rm (src/src/main.rs): a wrapper around /bin/rm that loads a list   *)
(* of protected paths from configuration files, drops every argument whose *)
(* normalized pathname is protected, and forwards the remaining arguments  *)
(* to the real rm, returning its exit code.                                *)
(*                                                                         *)
(* A pathname string is a record [abs, segs, trail]: whether it starts     *)
(* with "/", its "/"-separated segments, and whether it ends with "/".     *)
(* A PathBuf value is handled through its component sequence, which is     *)
(* what PathBuf's Eq and Ord compare.                                      *)
(***************************************************************************)
EXTENDS Integers, Sequences, FiniteSets, TLC

\* ------------------------------------------------------------------ bounds

\* Most arguments on one command line.
MaxArgs == 2
\* Most lines read over all configuration files of one run.
MaxLines == 2
\* Most symbolic links one pathname resolution follows before ELOOP.
MaxHops == 3
\* Most entries one glob enumeration yields in the per-entry model of parse_line.
MaxEntries == 259
\* Most unreadable entries one glob enumeration yields.
MaxErrs == 1
\* Most segments of a pathname normalize_path is applied to on its own.
MaxSegs == 3
\* Most lines over all configuration files when read_config_files runs on its own.
MaxLoadLines == 2

\* ------------------------------------------------------------ pathnames

Str(abs, segs, trail) == [abs |-> abs, segs |-> segs, trail |-> trail]

\* "No value", the None of an Option and the Err of a Result: of a pathname,
\* of a located entry, of a name or kind.
NoPath == [none |-> TRUE]
NoEntry == <<"?">>
NoName == "None"

RECURSIVE DropDots(_)
DropDots(segs) ==
    IF segs = <<>> THEN <<>>
    ELSE IF Head(segs) = "." THEN DropDots(Tail(segs))
    ELSE <<Head(segs)>> \o DropDots(Tail(segs))

\* Path::components(): the root, a leading "." of a relative path, ".." and
\* normal names; other "." segments and the trailing separator are dropped.
Components(p) ==
    IF p.abs THEN <<"/">> \o DropDots(p.segs)
    ELSE IF p.segs # <<>> /\ Head(p.segs) = "."
         THEN <<".">> \o DropDots(Tail(p.segs))
         ELSE DropDots(p.segs)

\* The pathname a component sequence spells.
FromComponents(c) ==
    IF c # <<>> /\ Head(c) = "/" THEN Str(TRUE, Tail(c), FALSE)
    ELSE Str(FALSE, c, FALSE)

\* PathBuf::from(string), as far as Eq, Ord and contains() can tell.
PathBufFrom(p) == Components(p)

\* Path::is_relative()
is_relative(p) == ~p.abs

\* Path::parent(): the path without its last component; None for the root
\* and for the empty path.
parent(p) ==
    LET c == Components(p)
    IN  IF c = <<>> \/ c[Len(c)] = "/" THEN NoPath
        ELSE FromComponents(SubSeq(c, 1, Len(c) - 1))

\* Path::file_name(): the last component when it is a normal name.
file_name(p) ==
    LET c == Components(p)
    IN  IF c = <<>> \/ c[Len(c)] \in {"/", ".", ".."} THEN NoName
        ELSE c[Len(c)]

\* Path::new(".").join(path)
DotJoin(p) ==
    IF p.abs THEN p ELSE Str(FALSE, <<".">> \o p.segs, p.trail)

\* dir.join(file_name) for a canonical directory.
JoinName(dir, name) == Str(dir.abs, Append(dir.segs, name), FALSE)

\* ----------------------------------------------------------- file system

Dir == [kind |-> "dir"]
File == [kind |-> "file"]
Link(target) == [kind |-> "link", target |-> target]
\* A directory the process may not list: read_dir fails on it.
ClosedDir == [kind |-> "dir", closed |-> TRUE]

\* The working directory of the process.
Cwd == <<"tmp">>

\* What /tmp/l can be: absent, or a symbolic link to /usr, to the sibling
\* f, to a missing file, to itself, or to the parent directory.
LinkTargets ==
    { Str(TRUE, <<"usr">>, FALSE),
      Str(FALSE, <<"f">>, FALSE),
      Str(TRUE, <<"nope">>, FALSE),
      Str(FALSE, <<"l">>, FALSE),
      Str(FALSE, <<"..">>, FALSE) }

BaseFs ==
    (<<>> :> Dir) @@ (<<"usr">> :> Dir) @@ (<<"tmp">> :> Dir)
    @@ (<<"tmp", "f">> :> File)

\* The file system layouts: the directories / /usr /tmp and the file
\* /tmp/f, with or without the link /tmp/l, with or without /t -> /tmp.
Layouts ==
    LET withL == {BaseFs} \cup {BaseFs @@ (<<"tmp", "l">> :> Link(t)) : t \in LinkTargets}
    IN  withL \cup {f @@ (<<"t">> :> Link(Str(TRUE, <<"tmp">>, FALSE))) : f \in withL}

\* Pathname resolution from directory `stack` over the segments `todo`,
\* following at most `hops` links; the last segment's link is followed
\* only when `follow`.  NoEntry on ENOENT, ENOTDIR or ELOOP.
RECURSIVE Walk(_, _, _, _, _)
Walk(f, stack, todo, hops, follow) ==
    IF todo = <<>> THEN stack
    ELSE LET c == Head(todo)
             rest == Tail(todo)
             p == Append(stack, c)
         IN  IF c = "." THEN Walk(f, stack, rest, hops, follow)
             ELSE IF c = ".."
             THEN Walk(f, IF stack = <<>> THEN <<>> ELSE SubSeq(stack, 1, Len(stack) - 1),
                       rest, hops, follow)
             ELSE IF p \notin DOMAIN f THEN NoEntry
             ELSE IF f[p].kind = "link"
             THEN IF rest = <<>> /\ ~follow THEN p
                  ELSE IF hops = 0 THEN NoEntry
                  ELSE Walk(f, IF f[p].target.abs THEN <<>> ELSE stack,
                            f[p].target.segs \o rest, hops - 1, follow)
             ELSE IF f[p].kind = "file"
             THEN IF rest = <<>> THEN p ELSE NoEntry
             ELSE Walk(f, p, rest, hops, follow)

\* The segments resolution walks: a trailing separator asks for a directory,
\* as a final "." does.
WalkSegs(p) == IF p.trail THEN p.segs \o <<".">> ELSE p.segs

Locate(f, p, follow) ==
    IF ~p.abs /\ p.segs = <<>> THEN NoEntry
    ELSE Walk(f, IF p.abs THEN <<>> ELSE Cwd, WalkSegs(p), MaxHops, follow)

\* Path::canonicalize(): the absolute pathname with every link resolved, or
\* NoPath when the path does not exist.
canonicalize(f, p) ==
    LET r == Locate(f, p, TRUE)
    IN  IF r = NoEntry THEN NoPath ELSE Str(TRUE, r, FALSE)

\* Path::symlink_metadata(): the kind of the entry itself, or NoName.
symlink_metadata(f, p) ==
    LET r == Locate(f, p, FALSE)
    IN  IF r = NoEntry THEN NoName ELSE f[r].kind

\* fs::metadata(): the kind of the entry a path leads to, or NoName.
metadata(f, p) ==
    LET r == Locate(f, p, TRUE)
    IN  IF r = NoEntry THEN NoName ELSE f[r].kind

\* The file system with /root, which the process may not list.
LoadFs == BaseFs @@ (<<"root">> :> ClosedDir)

\* read_dir succeeds on the directory a path leads to.
Listable(f, p) == f[Locate(f, p, TRUE)] # ClosedDir

\* ---------------------------------------------------------- normalization

\* symlink_canonicalize: the canonical parent directory joined with the
\* unchanged file name, NoPath when the parent cannot be canonicalized.
symlink_canonicalize(f, path) ==
    LET explicit_path == IF is_relative(path) THEN DotJoin(path) ELSE path
        dir0 == parent(explicit_path)
        dir == IF dir0 = NoPath THEN Str(TRUE, <<>>, FALSE) ELSE canonicalize(f, dir0)
    IN  IF dir = NoPath THEN NoPath
        ELSE IF file_name(path) # NoName THEN JoinName(dir, file_name(path))
        ELSE IF parent(dir) # NoPath THEN parent(dir)
        ELSE Str(TRUE, <<>>, FALSE)

\* normalize_path without the link branch: every argument is canonicalized.
normalize_path_follow(f, arg) ==
    IF canonicalize(f, arg) # NoPath THEN canonicalize(f, arg) ELSE arg

\* normalize_path giving the explicit form "./name" of a relative argument
\* back when it cannot be canonicalized.
normalize_path_explicit(f, arg) ==
    LET back == IF is_relative(arg) THEN DotJoin(arg) ELSE arg
    IN  IF symlink_metadata(f, arg) = "link"
        THEN IF symlink_canonicalize(f, arg) # NoPath
             THEN symlink_canonicalize(f, arg) ELSE back
        ELSE IF canonicalize(f, arg) # NoPath THEN canonicalize(f, arg) ELSE back

\* normalize_path with its two branches exchanged.
normalize_path_swapped(f, arg) ==
    IF symlink_metadata(f, arg) # "link"
    THEN IF symlink_canonicalize(f, arg) # NoPath
         THEN symlink_canonicalize(f, arg) ELSE arg
    ELSE IF canonicalize(f, arg) # NoPath THEN canonicalize(f, arg) ELSE arg

\* normalize_path: a link is located by its canonical parent, anything else
\* is canonicalized; on failure the argument comes back unchanged.
normalize_path(f, arg) ==
    IF symlink_metadata(f, arg) = "link"
    THEN IF symlink_canonicalize(f, arg) # NoPath
         THEN symlink_canonicalize(f, arg) ELSE arg
    ELSE IF canonicalize(f, arg) # NoPath THEN canonicalize(f, arg) ELSE arg

\* ------------------------------------------------------------ constants

REAL_RM == Str(TRUE, <<"bin", "rm">>, FALSE)

DEFAULT_PATHS ==
    << <<"/", "bin">>,
       <<"/", "boot">>,
       <<"/", "dev">>,
       <<"/", "etc">>,
       <<"/", "home">>,
       <<"/", "initrd">>,
       <<"/", "lib">>,
       <<"/", "lib32">>,
       <<"/", "lib64">>,
       <<"/", "proc">>,
       <<"/", "root">>,
       <<"/", "sbin">>,
       <<"/", "sys">>,
       <<"/", "usr">>,
       <<"/", "usr", "bin">>,
       <<"/", "usr", "include">>,
       <<"/", "usr", "lib">>,
       <<"/", "usr", "local">>,
       <<"/", "usr", "local", "bin">>,
       <<"/", "usr", "local", "include">>,
       <<"/", "usr", "local", "sbin">>,
       <<"/", "usr", "local", "share">>,
       <<"/", "usr", "sbin">>,
       <<"/", "usr", "share">>,
       <<"/", "usr", "src">>,
       <<"/", "var">> >>

MAX_GLOB_EXPANSION == 256

\* --------------------------------------------------- order of PathBuf values

\* The components the model uses, ascending as Component's Ord has them:
\* RootDir < CurDir < ParentDir < Normal(name), names by their bytes.
ComponentOrder ==
    << "/", ".", "..",
       "-h", "bin", "boot", "dev", "e", "etc", "f", "home", "include", "initrd",
       "l", "lib", "lib32", "lib64", "local", "nope", "proc", "rm", "root", "sbin",
       "share", "src", "sys", "t", "tmp", "usr", "var" >>

RankTable ==
    [c \in {ComponentOrder[i] : i \in 1..Len(ComponentOrder)} |->
        CHOOSE i \in 1..Len(ComponentOrder) : ComponentOrder[i] = c]

Rank(c) == RankTable[c]

\* a < b for two PathBuf values: the first differing component decides, a
\* proper prefix is smaller.
RECURSIVE PathLess(_, _)
PathLess(a, b) ==
    IF b = <<>> THEN FALSE
    ELSE IF a = <<>> THEN TRUE
    ELSE IF Head(a) = Head(b) THEN PathLess(Tail(a), Tail(b))
    ELSE Rank(Head(a)) < Rank(Head(b))

RECURSIVE Insert(_, _)
Insert(x, sorted) ==
    IF sorted = <<>> THEN <<x>>
    ELSE IF PathLess(Head(sorted), x) THEN <<Head(sorted)>> \o Insert(x, Tail(sorted))
    ELSE <<x>> \o sorted

\* Vec::sort()
RECURSIVE Sort(_)
Sort(v) == IF v = <<>> THEN <<>> ELSE Insert(Head(v), Sort(Tail(v)))

\* Vec::dedup(): drops every element equal to the one before it.
RECURSIVE Dedup(_)
Dedup(v) ==
    IF Len(v) <= 1 THEN v
    ELSE IF v[1] = v[2] THEN Dedup(Tail(v))
    ELSE <<v[1]>> \o Dedup(Tail(v))

\* ------------------------------------------------------------------- glob

\* One configuration line as the reader hands it over: unreadable (an Err),
\* or text that is an invalid pattern, or a pattern whose segments are
\* names, "." or "..", or the wildcard "*".
UnreadableLine == [ok |-> FALSE]
InvalidPattern == [ok |-> TRUE, valid |-> FALSE]
Pattern(p) == [ok |-> TRUE, valid |-> TRUE, pat |-> p]

\* The names in a directory, ascending.
Children(f, dir) ==
    {p[Len(p)] : p \in {q \in DOMAIN f : Len(q) = Len(dir) + 1 /\ SubSeq(q, 1, Len(dir)) = dir}}

RECURSIVE Ascending(_)
Ascending(names) ==
    IF names = {} THEN <<>>
    ELSE LET least == CHOOSE n \in names : \A m \in names : Rank(n) <= Rank(m)
         IN  <<least>> \o Ascending(names \ {least})

Ok(path) == [ok |-> TRUE, path |-> path]
Err == [ok |-> FALSE]

\* The glob crate's walk: `path` has matched the pattern so far, `todo` are
\* the pattern segments left.  A name is matched by looking the joined path
\* up (a link whose target is missing counts as there), "." and ".." need a
\* directory, "*" lists the directory and yields an error when the directory
\* cannot be listed.  The paths are joined as written: no link is resolved
\* and no ".." is removed.
RECURSIVE GlobWalk(_, _, _, _)
GlobWalk(f, path, todo, require_dir) ==
    IF todo = <<>>
    THEN IF ~require_dir \/ metadata(f, path) = "dir" THEN <<Ok(PathBufFrom(path))>> ELSE <<>>
    ELSE LET c == Head(todo)
             rest == Tail(todo)
             next(n) == Str(path.abs, Append(path.segs, n), FALSE)
             RECURSIVE each(_)
             each(names) ==
                 IF names = <<>> THEN <<>>
                 ELSE GlobWalk(f, next(Head(names)), rest, require_dir) \o each(Tail(names))
         IN  IF c = "*"
             THEN IF metadata(f, path) # "dir" THEN <<>>
                  ELSE IF ~Listable(f, path) THEN <<Err>>
                  ELSE each(Ascending(Children(f, Locate(f, path, TRUE))))
             ELSE IF c \in {".", ".."}
             THEN IF metadata(f, path) = "dir"
                  THEN GlobWalk(f, next(c), rest, require_dir) ELSE <<>>
             ELSE IF metadata(f, next(c)) # NoName \/ symlink_metadata(f, next(c)) # NoName
                  THEN GlobWalk(f, next(c), rest, require_dir) ELSE <<>>

\* glob(&line): the entries in the order the iterator yields them; the
\* scope is "/" for an absolute pattern and "." for a relative one.
glob(f, pat) ==
    IF pat.abs THEN GlobWalk(f, Str(TRUE, <<>>, FALSE), pat.segs, pat.trail)
    ELSE IF pat.segs = <<>> THEN <<>>
    ELSE LET c == Head(pat.segs)
             first == Str(FALSE, <<c>>, FALSE)
             RECURSIVE each(_)
             each(names) ==
                 IF names = <<>> THEN <<>>
                 ELSE GlobWalk(f, Str(FALSE, <<Head(names)>>, FALSE), Tail(pat.segs), pat.trail)
                      \o each(Tail(names))
         IN  IF c = "*" THEN each(Ascending(Children(f, Cwd)))
             ELSE IF c \in {".", ".."} \/ metadata(f, first) # NoName
                     \/ symlink_metadata(f, first) # NoName
             THEN GlobWalk(f, first, Tail(pat.segs), pat.trail)
             ELSE <<>>

\* ------------------------------------------------------------- parse_line

\* The state of parse_line's loop: the matches counted, the paths kept,
\* whether the function has returned and whether it printed the truncation
\* notice.
ParseStart == [count |-> 0, paths |-> <<>>, returned |-> FALSE, truncated |-> FALSE]

\* The loop's turn with the budget test off by one (>= for >).
ParseEntryOffByOne(st, entry) ==
    IF entry.ok
    THEN IF st.count + 1 >= MAX_GLOB_EXPANSION
         THEN [st EXCEPT !.count = st.count + 1, !.returned = TRUE, !.truncated = TRUE]
         ELSE [st EXCEPT !.count = st.count + 1, !.paths = Append(st.paths, entry.path)]
    ELSE st

\* The loop's turn stopping, with the notice, as soon as the budget is used
\* up: the 256th match is kept and the function returns.
ParseEntryStopAtBudget(st, entry) ==
    IF entry.ok
    THEN IF st.count + 1 = MAX_GLOB_EXPANSION
         THEN [st EXCEPT !.count = st.count + 1, !.paths = Append(st.paths, entry.path),
                         !.returned = TRUE, !.truncated = TRUE]
         ELSE [st EXCEPT !.count = st.count + 1, !.paths = Append(st.paths, entry.path)]
    ELSE st

\* One turn of the loop over the entries.
ParseEntry(st, entry) ==
    IF entry.ok
    THEN IF st.count + 1 > MAX_GLOB_EXPANSION
         THEN [st EXCEPT !.count = st.count + 1, !.returned = TRUE, !.truncated = TRUE]
         ELSE [st EXCEPT !.count = st.count + 1, !.paths = Append(st.paths, entry.path)]
    ELSE st

RECURSIVE ParseLoop(_, _)
ParseLoop(st, entries) ==
    IF entries = <<>> \/ st.returned THEN st
    ELSE ParseLoop(ParseEntry(st, Head(entries)), Tail(entries))

NoVec == [some |-> FALSE, paths |-> <<>>]
SomeVec(paths) == [some |-> TRUE, paths |-> paths]

\* parse_line: None for an unreadable line or an invalid pattern, else the
\* paths the loop kept.
parse_line(f, line_result) ==
    IF ~line_result.ok THEN NoVec
    ELSE IF ~line_result.valid THEN NoVec
    ELSE SomeVec(ParseLoop(ParseStart, glob(f, line_result.pat)).paths)

\* ------------------------------------------------------------ read_config

\* A configuration file: missing, or there but not openable, or its lines.
MissingFile == [exists |-> FALSE, readable |-> FALSE, lines |-> <<>>]
UnreadableFile == [exists |-> TRUE, readable |-> FALSE, lines |-> <<>>]
ReadableFile(lines) == [exists |-> TRUE, readable |-> TRUE, lines |-> lines]

\* The loop over the lines given up at the first line parse_line rejects.
RECURSIVE ReadLinesUntilError(_, _)
ReadLinesUntilError(f, lines) ==
    IF lines = <<>> \/ ~parse_line(f, Head(lines)).some THEN <<>>
    ELSE parse_line(f, Head(lines)).paths \o ReadLinesUntilError(f, Tail(lines))

RECURSIVE ReadLines(_, _)
ReadLines(f, lines) ==
    IF lines = <<>> THEN <<>>
    ELSE (IF parse_line(f, Head(lines)).some THEN parse_line(f, Head(lines)).paths ELSE <<>>)
         \o ReadLines(f, Tail(lines))

read_config(f, file) ==
    IF ~file.exists THEN SomeVec(<<>>)
    ELSE IF ~file.readable THEN NoVec
    ELSE SomeVec(ReadLines(f, file.lines))

\* ------------------------------------------------------- filter_arguments

\* protected_paths.contains(&PathBuf::from(normalize_path(&arg)))
IsProtected(f, protected, arg) ==
    \E i \in 1..Len(protected) : protected[i] = PathBufFrom(normalize_path(f, arg))

\* The loop's turn forwarding the normalized form of the argument.
FilterArgNormalized(f, protected, filtered, arg) ==
    IF IsProtected(f, protected, arg) THEN filtered
    ELSE Append(filtered, normalize_path(f, arg))

\* One turn of filter_arguments' loop.
FilterArg(f, protected, filtered, arg) ==
    IF IsProtected(f, protected, arg) THEN filtered ELSE Append(filtered, arg)

\* -------------------------------------------------------------- the guard

\* ensure_real_rm_is_callable, given what canonicalizing REAL_RM and the
\* running executable's own path yield: "err" when either fails, "exit"
\* when both name the same file (the process exits with 1), else "ok".
ensure_real_rm_is_callable(real_rm, current_exe) ==
    IF real_rm = NoPath \/ current_exe = NoPath THEN "err"
    ELSE IF real_rm = current_exe THEN "exit"
    ELSE "ok"

\* ---------------------------------------------------------------- spawning

SpawnFailed == [kind |-> "spawn_failed", code |-> 0]
Exited(code) == [kind |-> "exited", code |-> code]
Signaled(sig) == [kind |-> "signaled", code |-> sig]
NotSpawned == [kind |-> "none", code |-> 0]

\* run relaying the number of the signal that ended rm.
RunResultSignal(outcome) ==
    IF outcome.kind \in {"exited", "signaled"} THEN outcome.code ELSE 1

\* run returning 0 when rm could not be spawned.
RunResultSpawnZero(outcome) ==
    IF outcome.kind = "exited" THEN outcome.code
    ELSE IF outcome.kind = "signaled" THEN 1 ELSE 0

\* What run returns for the outcome of Command::status():
\* status.code().unwrap_or(1), and 1 when the spawn failed.
RunResult(outcome) ==
    IF outcome.kind = "exited" THEN outcome.code ELSE 1

\* ------------------------------------------------------------------ inputs

GLOBAL_CONFIG == "/etc/safe-rm.conf"
LOCAL_GLOBAL_CONFIG == "/usr/local/etc/safe-rm.conf"
USER_CONFIG == ".config/safe-rm"
LEGACY_USER_CONFIG == ".safe-rm"

Globals == <<GLOBAL_CONFIG, LOCAL_GLOBAL_CONFIG>>
Locals == <<USER_CONFIG, LEGACY_USER_CONFIG>>

\* The lines a configuration file may hold.
Lines ==
    { UnreadableLine,
      InvalidPattern,
      Pattern(Str(TRUE, <<"usr">>, FALSE)),
      Pattern(Str(TRUE, <<"tmp", "*">>, FALSE)),
      Pattern(Str(TRUE, <<"t", "*">>, FALSE)),
      Pattern(Str(TRUE, <<"tmp", "l">>, FALSE)),
      Pattern(Str(TRUE, <<"t">>, FALSE)),
      Pattern(Str(TRUE, <<"nope">>, FALSE)) }

RECURSIVE SeqsUpTo(_, _)
SeqsUpTo(S, n) ==
    IF n <= 0 THEN {<<>>}
    ELSE LET shorter == SeqsUpTo(S, n - 1)
         IN  shorter \cup {Append(q, x) : q \in {r \in shorter : Len(r) = n - 1}, x \in S}

\* The configuration files of at most n lines.
Files(n) == {MissingFile, UnreadableFile} \cup {ReadableFile(l) : l \in SeqsUpTo(Lines, n)}

\* The lines of the configuration files read_config_files is run on by
\* itself: "/*/*" meets the directory that cannot be listed and /tmp/f.
LoadLines ==
    { UnreadableLine,
      InvalidPattern,
      Pattern(Str(TRUE, <<"usr">>, FALSE)),
      Pattern(Str(TRUE, <<"*", "*">>, FALSE)) }

LoadFiles(n) ==
    {MissingFile, UnreadableFile} \cup {ReadableFile(l) : l \in SeqsUpTo(LoadLines, n)}

\* The command-line arguments.
ArgStrings ==
    { Str(TRUE, <<"usr">>, FALSE),
      Str(TRUE, <<"tmp", "f">>, FALSE),
      Str(TRUE, <<"t", "f">>, FALSE),
      Str(FALSE, <<"l">>, FALSE),
      Str(TRUE, <<"t">>, FALSE),
      Str(TRUE, <<"t", "l">>, TRUE),
      Str(FALSE, <<"-h">>, FALSE) }

\* The segments of the pathnames normalize_path is applied to on its own.
SegNames == {"usr", "tmp", "f", "l", "t", ".", "..", "-h"}

\* The pathnames of at most MaxSegs segments.
PathInputs ==
    {Str(a, q, t) : a \in BOOLEAN, q \in SeqsUpTo(SegNames, MaxSegs), t \in BOOLEAN}

\* The k-th readable match of an enumeration.
Match(k) == <<"/", "e", k>>

\* What canonicalizing REAL_RM and the running executable can yield.
WrapperExe == Str(TRUE, <<"usr", "local", "bin", "rm">>, FALSE)
RealRmCanon == {NoPath, REAL_RM, WrapperExe}
CurrentExeCanon == {NoPath, WrapperExe}

\* How the spawned rm can end.
ExitCodes == {0, 2}
SpawnOutcomes == {SpawnFailed, Signaled(9)} \cup {Exited(c) : c \in ExitCodes}

\* ------------------------------------------------------------------- state

VARIABLES
    fs,               \* the file system, unchanged during the run
    pc,               \* where main is
    guard,            \* what ensure_real_rm_is_callable yielded
    file_idx,         \* the next configuration file of the list being read
    lines_read,       \* the lines read so far
    config_paths,     \* read_config_files' vector before the fallback (line 432)
    protected_paths,  \* the vector read_config_files returns
    args,             \* the arguments consumed so far
    filtered_args,    \* filter_arguments' result so far
    child,            \* the outcome of spawning rm
    child_argv,       \* the arguments rm was given
    exit_code,        \* the exit code of the process, -1 while it runs
    glob_st,          \* parse_line over an enumeration, entry by entry
    norm_st,          \* normalize_path applied again and again to one path
    load_st           \* read_config_files on its own, with the files it has read

vars == <<fs, pc, guard, file_idx, lines_read, config_paths, protected_paths, args,
          filtered_args, child, child_argv, exit_code, glob_st, norm_st, load_st>>

mainVars == <<pc, guard, file_idx, lines_read, config_paths, protected_paths, args,
              filtered_args, child, child_argv, exit_code>>

GlobIdle == [st |-> ParseStart, yielded |-> 0, errors |-> 0, ended |-> FALSE]
NormIdle == [arg |-> Str(FALSE, <<>>, FALSE), out |-> <<>>]
LoadIdle ==
    [phase |-> "globals", idx |-> 1, files |-> <<>>, lines |-> 0, paths |-> <<>>,
     result |-> <<>>]

MainStart ==
    /\ pc = "main"
    /\ guard = "none"
    /\ file_idx = 1
    /\ lines_read = 0
    /\ config_paths = <<>>
    /\ protected_paths = <<>>
    /\ args = <<>>
    /\ filtered_args = <<>>
    /\ child = NotSpawned
    /\ child_argv = <<>>
    /\ exit_code = -1

Init ==
    /\ fs \in Layouts
    /\ MainStart
    /\ glob_st = GlobIdle
    /\ norm_st = NormIdle
    /\ load_st = LoadIdle

\* ------------------------------------------------------------------- main

\* main ending the process with 1 also when the guard returns an error.
GuardFatalOnError ==
    /\ pc = "main"
    /\ \E real_rm \in RealRmCanon, current_exe \in CurrentExeCanon :
         LET r == ensure_real_rm_is_callable(real_rm, current_exe)
         IN  /\ guard' = r
             /\ pc' = IF r \in {"exit", "err"} THEN "exited" ELSE "globals"
             /\ exit_code' = IF r \in {"exit", "err"} THEN 1 ELSE exit_code
    /\ UNCHANGED <<fs, file_idx, lines_read, config_paths, protected_paths, args,
                   filtered_args, child, child_argv, glob_st, norm_st, load_st>>

\* main, lines 595-600: the guard.  It ends the process with 1 when REAL_RM
\* is the running executable; an error is reported and main goes on.
Guard ==
    /\ pc = "main"
    /\ \E real_rm \in RealRmCanon, current_exe \in CurrentExeCanon :
         LET r == ensure_real_rm_is_callable(real_rm, current_exe)
         IN  /\ guard' = r
             /\ pc' = IF r = "exit" THEN "exited" ELSE "globals"
             /\ exit_code' = IF r = "exit" THEN 1 ELSE exit_code
    /\ UNCHANGED <<fs, file_idx, lines_read, config_paths, protected_paths, args,
                   filtered_args, child, child_argv, glob_st, norm_st, load_st>>

\* What one read_config call adds to the vector.
Extended(v, file) ==
    IF read_config(fs, file).some THEN v \o read_config(fs, file).paths ELSE v

\* read_config_files, lines 418-422: one turn of the loop over the globals.
ReadGlobal ==
    /\ pc = "globals"
    /\ \E file \in Files(MaxLines - lines_read) :
         /\ config_paths' = Extended(config_paths, file)
         /\ lines_read' = lines_read + Len(file.lines)
    /\ file_idx' = IF file_idx = Len(Globals) THEN 1 ELSE file_idx + 1
    /\ pc' = IF file_idx = Len(Globals) THEN "home" ELSE "globals"
    /\ UNCHANGED <<fs, guard, protected_paths, args, filtered_args, child, child_argv,
                   exit_code, glob_st, norm_st, load_st>>

\* read_config_files, line 423: the locals are read only when HOME is set.
CheckHome ==
    /\ pc = "home"
    /\ \E home_set \in BOOLEAN : pc' = IF home_set THEN "locals" ELSE "fallback"
    /\ UNCHANGED <<fs, guard, file_idx, lines_read, config_paths, protected_paths, args,
                   filtered_args, child, child_argv, exit_code, glob_st, norm_st, load_st>>

\* read_config_files, lines 425-429: one turn of the loop over the locals.
ReadLocal ==
    /\ pc = "locals"
    /\ \E file \in Files(MaxLines - lines_read) :
         /\ config_paths' = Extended(config_paths, file)
         /\ lines_read' = lines_read + Len(file.lines)
    /\ file_idx' = IF file_idx = Len(Locals) THEN 1 ELSE file_idx + 1
    /\ pc' = IF file_idx = Len(Locals) THEN "fallback" ELSE "locals"
    /\ UNCHANGED <<fs, guard, protected_paths, args, filtered_args, child, child_argv,
                   exit_code, glob_st, norm_st, load_st>>

\* The end of read_config_files without the dedup.
FinalizedNoDedup(v) == Sort(IF v = <<>> THEN DEFAULT_PATHS ELSE v)

\* The end of read_config_files without the fallback.
FinalizedNoFallback(v) == Dedup(Sort(v))

\* The end of read_config_files with the defaults always added.
FinalizedWithDefaults(v) == Dedup(Sort(v \o DEFAULT_PATHS))

\* read_config_files, lines 432-440: the fallback, the sort and the dedup.
Finalized(v) == Dedup(Sort(IF v = <<>> THEN DEFAULT_PATHS ELSE v))

Fallback ==
    /\ pc = "fallback"
    /\ protected_paths' = Finalized(config_paths)
    /\ pc' = "loaded"
    /\ UNCHANGED <<fs, guard, file_idx, lines_read, config_paths, args, filtered_args,
                   child, child_argv, exit_code, glob_st, norm_st, load_st>>

\* run, lines 482-483: read_config_files has returned, its locals are gone,
\* and filter_arguments starts with an empty vector.
StartFilter ==
    /\ pc = "loaded"
    /\ config_paths' = <<>>
    /\ lines_read' = 0
    /\ filtered_args' = <<>>
    /\ pc' = "filter"
    /\ UNCHANGED <<fs, guard, file_idx, protected_paths, args, child, child_argv,
                   exit_code, glob_st, norm_st, load_st>>

\* filter_arguments, lines 311-317: one turn of the loop over the arguments.
FilterStep ==
    /\ pc = "filter"
    /\ Len(args) < MaxArgs
    /\ \E arg \in ArgStrings :
         /\ args' = Append(args, arg)
         /\ filtered_args' = FilterArg(fs, protected_paths, filtered_args, arg)
    /\ UNCHANGED <<fs, pc, guard, file_idx, lines_read, config_paths, protected_paths,
                   child, child_argv, exit_code, glob_st, norm_st, load_st>>

\* run not starting rm when no argument is left, and returning 0.
SpawnUnlessEmpty ==
    /\ pc = "filter"
    /\ \E outcome \in SpawnOutcomes :
         /\ child' = IF filtered_args = <<>> THEN NotSpawned ELSE outcome
         /\ child_argv' = IF outcome = SpawnFailed THEN <<>> ELSE filtered_args
         /\ exit_code' = IF filtered_args = <<>> THEN 0 ELSE RunResult(outcome)
    /\ pc' = "exited"
    /\ UNCHANGED <<fs, guard, file_idx, lines_read, config_paths, protected_paths, args,
                   filtered_args, glob_st, norm_st, load_st>>

\* run, lines 486-495, and main's process::exit: rm is spawned with the
\* filtered arguments and the process exits with what run returns.
Spawn ==
    /\ pc = "filter"
    /\ \E outcome \in SpawnOutcomes :
         /\ child' = outcome
         /\ child_argv' = IF outcome = SpawnFailed THEN <<>> ELSE filtered_args
         /\ exit_code' = RunResult(outcome)
    /\ pc' = "exited"
    /\ UNCHANGED <<fs, guard, file_idx, lines_read, config_paths, protected_paths, args,
                   filtered_args, glob_st, norm_st, load_st>>

Next ==
    \/ Guard
    \/ ReadGlobal
    \/ CheckHome
    \/ ReadLocal
    \/ Fallback
    \/ StartFilter
    \/ FilterStep
    \/ Spawn

Spec == Init /\ [][Next]_vars

\* ------------------------------------------- parse_line, entry by entry

\* parse_line (lines 130-153) over an enumeration that yields its matches
\* one at a time: the iterator hands the loop its next readable match, or
\* an unreadable one, or ends.

GlobInit ==
    /\ fs = BaseFs
    /\ MainStart
    /\ glob_st = GlobIdle
    /\ norm_st = NormIdle
    /\ load_st = LoadIdle

Running == ~glob_st.ended /\ ~glob_st.st.returned

\* Lines 135-145: the iterator yields Ok(path).
EntryOk ==
    /\ Running
    /\ glob_st.yielded + glob_st.errors < MaxEntries
    /\ glob_st' = [glob_st EXCEPT !.st = ParseEntry(@, Ok(Match(glob_st.yielded + 1))),
                                  !.yielded = @ + 1]
    /\ UNCHANGED <<fs, mainVars, norm_st, load_st>>

\* Lines 146-149: the iterator yields Err.
EntryErr ==
    /\ Running
    /\ glob_st.yielded + glob_st.errors < MaxEntries
    /\ glob_st.errors < MaxErrs
    /\ glob_st' = [glob_st EXCEPT !.st = ParseEntry(@, Err), !.errors = @ + 1]
    /\ UNCHANGED <<fs, mainVars, norm_st, load_st>>

\* Line 153: the iterator is exhausted and parse_line returns.
EntriesEnd ==
    /\ Running
    /\ glob_st' = [glob_st EXCEPT !.st.returned = TRUE, !.ended = TRUE]
    /\ UNCHANGED <<fs, mainVars, norm_st, load_st>>

GlobNext ==
    \/ EntryOk
    \/ EntryErr
    \/ EntriesEnd

SpecGlob == GlobInit /\ [][GlobNext]_vars

\* ------------------------------------------ normalize_path, on its own

NormInit ==
    /\ fs \in Layouts
    /\ MainStart
    /\ glob_st = GlobIdle
    /\ norm_st \in {[arg |-> p, out |-> <<>>] : p \in PathInputs}
    /\ load_st = LoadIdle

\* normalize_path applied to the pathname.
Normalize ==
    /\ norm_st.out = <<>>
    /\ norm_st' = [norm_st EXCEPT !.out = <<normalize_path(fs, norm_st.arg)>>]
    /\ UNCHANGED <<fs, mainVars, glob_st, load_st>>

\* normalize_path applied to its own result.
NormalizeAgain ==
    /\ Len(norm_st.out) = 1
    /\ norm_st' = [norm_st EXCEPT !.out = Append(@, normalize_path(fs, norm_st.out[1]))]
    /\ UNCHANGED <<fs, mainVars, glob_st, load_st>>

NormNext ==
    \/ Normalize
    \/ NormalizeAgain

SpecNorm == NormInit /\ [][NormNext]_vars

\* ------------------------------------------ read_config_files, on its own

\* read_config_files (lines 415-441) on a file system with a directory that
\* cannot be listed; load_st.files keeps the files as they were read.

LoadInit ==
    /\ fs = LoadFs
    /\ MainStart
    /\ glob_st = GlobIdle
    /\ norm_st = NormIdle
    /\ load_st = LoadIdle

\* One read_config call of either loop, lines 418-422 and 425-429.
LoadFile(list, after) ==
    \E file \in LoadFiles(MaxLoadLines - load_st.lines) :
        load_st' = [load_st EXCEPT !.paths = Extended(@, file),
                                   !.files = Append(@, file),
                                   !.lines = @ + Len(file.lines),
                                   !.idx = IF @ = Len(list) THEN 1 ELSE @ + 1,
                                   !.phase = IF load_st.idx = Len(list) THEN after ELSE @]

LoadGlobal ==
    /\ load_st.phase = "globals"
    /\ LoadFile(Globals, "home")
    /\ UNCHANGED <<fs, mainVars, glob_st, norm_st>>

\* Line 423: the locals are read only when HOME is set.
LoadHome ==
    /\ load_st.phase = "home"
    /\ \E home_set \in BOOLEAN :
         load_st' = [load_st EXCEPT !.phase = IF home_set THEN "locals" ELSE "fallback"]
    /\ UNCHANGED <<fs, mainVars, glob_st, norm_st>>

LoadLocal ==
    /\ load_st.phase = "locals"
    /\ LoadFile(Locals, "fallback")
    /\ UNCHANGED <<fs, mainVars, glob_st, norm_st>>

\* Lines 432-440: the fallback, the sort, the dedup, and the return.
LoadReturn ==
    /\ load_st.phase = "fallback"
    /\ load_st' = [load_st EXCEPT !.result = Finalized(load_st.paths), !.phase = "returned"]
    /\ UNCHANGED <<fs, mainVars, glob_st, norm_st>>

LoadNext ==
    \/ LoadGlobal
    \/ LoadHome
    \/ LoadLocal
    \/ LoadReturn

SpecLoad == LoadInit /\ [][LoadNext]_vars

\* ------------------------------------------------------------------ claims

Range(v) == {v[i] : i \in 1..Len(v)}

\* rm was started: Command::status() returned Ok.
Spawned == child.kind \in {"exited", "signaled"}

StrictlyAscending(v) == \A i \in 1..(Len(v) - 1) : PathLess(v[i], v[i + 1])

\* The positions of the arguments whose normalized form is not protected.
KeptPositions ==
    {i \in 1..Len(args) : PathBufFrom(normalize_path(fs, args[i])) \notin Range(protected_paths)}

\* The j-th smallest member of a set of positions.
NthOf(K, j) == CHOOSE i \in K : Cardinality({k \in K : k <= i}) = j

\* C1: filter_arguments' result is the subsequence of the arguments, in
\* their order and as they were written, at exactly the positions whose
\* normalized form is not a member of the protected paths.
C1_FilterIsSubsequence ==
    pc = "filter"
        => /\ Len(filtered_args) = Cardinality(KeptPositions)
           /\ \A j \in 1..Len(filtered_args) :
                  filtered_args[j] = args[NthOf(KeptPositions, j)]

\* Two different arguments, the first dropped, the second kept and forwarded
\* as written although its normalized form differs from it.
C1_Witness ==
    /\ pc = "filter"
    /\ Len(args) = 2
    /\ args[1] # args[2]
    /\ filtered_args = <<args[2]>>
    /\ normalize_path(fs, args[2]) # args[2]

\* C2 (as claimed): when the configuration yields paths, an argument that
\* spells one of the expanded paths verbatim is never among the arguments
\* rm is given.  The protected paths are the defaults only when the
\* configuration yields nothing, and are the expanded paths otherwise.
C2_ExpandedPathIsDropped ==
    (pc = "exited" /\ Spawned /\ protected_paths # DEFAULT_PATHS)
        => \A i \in 1..Len(args), P \in Range(protected_paths) :
               args[i] = FromComponents(P) => args[i] \notin Range(child_argv)

\* The place of a link itself: the entry the pathname names when its last
\* component is not followed.
OwnLocation(f, arg) == Str(TRUE, Locate(f, arg, FALSE), FALSE)

IsLink(f, arg) == symlink_metadata(f, arg) = "link"

\* C3: an argument that is a symbolic link is dropped exactly when the
\* link's own canonical location is protected, whatever it points to.
C3_LinkJudgedByOwnLocation ==
    pc = "filter"
        => \A i \in 1..Len(args) :
               IsLink(fs, args[i]) =>
                   (args[i] \in Range(filtered_args)
                       <=> PathBufFrom(OwnLocation(fs, args[i])) \notin Range(protected_paths))

\* Two links as arguments: one kept although its target is protected, one
\* dropped because its own location is listed.
C3_Witness ==
    /\ pc = "filter"
    /\ \E i, j \in 1..Len(args) :
         /\ IsLink(fs, args[i])
         /\ canonicalize(fs, args[i]) # NoPath
         /\ PathBufFrom(canonicalize(fs, args[i])) \in Range(protected_paths)
         /\ PathBufFrom(OwnLocation(fs, args[i])) \notin Range(protected_paths)
         /\ args[i] \in Range(filtered_args)
         /\ IsLink(fs, args[j])
         /\ PathBufFrom(OwnLocation(fs, args[j])) \in Range(protected_paths)
         /\ args[j] \notin Range(filtered_args)

\* C4: the list read_config_files returns is strictly ascending, so without
\* duplicates, and not empty.
C4_SortedNoDuplicatesNonEmpty ==
    pc = "loaded" => StrictlyAscending(protected_paths) /\ protected_paths # <<>>

\* The sources yielded a path twice and out of order.
C4_Witness ==
    /\ pc = "loaded"
    /\ Len(config_paths) > Len(protected_paths)
    /\ ~StrictlyAscending(config_paths)
    /\ \E i \in 1..(Len(config_paths) - 1) : PathLess(config_paths[i + 1], config_paths[i])

\* C5: when the sources yield no path, read_config_files returns exactly
\* DEFAULT_PATHS, its 26 entries in ascending order.
C5_DefaultsWhenNothingConfigured ==
    (pc = "loaded" /\ config_paths = <<>>)
        => /\ protected_paths = DEFAULT_PATHS
           /\ Len(protected_paths) = 26
           /\ StrictlyAscending(protected_paths)

\* Lines were read, none of them yielded a path, the defaults were returned.
C5_Witness ==
    /\ pc = "loaded"
    /\ config_paths = <<>>
    /\ lines_read = MaxLines
    /\ Len(protected_paths) = 26

\* C6: when a line of a configuration file expands to a path, the list
\* returned is the ascending, duplicate-free list of the expanded paths and
\* holds no default path that no line expanded to.
C6_DefaultsOnlyWhenNothingConfigured ==
    (pc = "loaded" /\ config_paths # <<>>)
        => /\ Range(protected_paths) = Range(config_paths)
           /\ StrictlyAscending(protected_paths)
           /\ \A d \in Range(DEFAULT_PATHS) :
                  d \in Range(protected_paths) => d \in Range(config_paths)

\* The configuration yielded paths, a default path among them, and the
\* other defaults are not in the list.
C6_Witness ==
    /\ pc = "loaded"
    /\ <<"/", "usr">> \in Range(config_paths)
    /\ Len(config_paths) > 1
    /\ <<"/", "bin">> \notin Range(protected_paths)
    /\ Len(protected_paths) < Len(config_paths)

\* The first n readable matches of the enumeration, in its order.
FirstMatches(n) == [k \in 1..n |-> Match(k)]

\* C7: parse_line never returns more than 256 paths; it returns only when
\* the enumeration is exhausted or has yielded more than 256 readable
\* matches, and in the latter case it returns exactly the first 256 of them
\* with the truncation notice, the enumeration going no further than the
\* 257th.
C7_GlobTruncation ==
    /\ Len(glob_st.st.paths) <= 256
    /\ glob_st.st.returned => glob_st.ended \/ glob_st.yielded > 256
    /\ glob_st.yielded > 256
         => /\ glob_st.st.returned
            /\ glob_st.st.truncated
            /\ glob_st.st.paths = FirstMatches(256)
            /\ glob_st.yielded = 257

\* The 257th readable match was yielded after an unreadable one.
C7_Witness ==
    /\ glob_st.yielded = 257
    /\ glob_st.errors = MaxErrs
    /\ glob_st.st.returned
    /\ Len(glob_st.st.paths) = 256

\* C8 (as claimed): run returns the exit code of rm however rm ended, and 1
\* when rm could not be spawned.
C8_RelaysExitCodeAlways ==
    (pc = "exited" /\ guard # "exit")
        => IF child = SpawnFailed THEN exit_code = 1
           ELSE child.kind = "exited" /\ exit_code = child.code

\* C8 (amended): rm is given the filtered arguments; run returns rm's exit
\* code when rm exited with one, and 1 when rm was ended by a signal or
\* could not be spawned.
C8_RelaysExitCode ==
    (pc = "exited" /\ guard # "exit")
        => /\ Spawned => child_argv = filtered_args
           /\ child.kind = "exited" => exit_code = child.code
           /\ child.kind = "signaled" => exit_code = 1
           /\ child = SpawnFailed => exit_code = 1

\* rm exited with a code other than 0 and 1, after arguments were dropped.
C8_Witness ==
    /\ pc = "exited"
    /\ child = Exited(2)
    /\ exit_code = 2
    /\ child_argv # <<>>
    /\ Len(child_argv) < Len(args)

\* C9: when the guard finds REAL_RM to be the running executable the process
\* exits with 1 before any configuration is read or argument looked at; when
\* rm cannot be spawned the process exits with 1; in both cases no rm
\* process was given any argument.
C9_FatalCases ==
    /\ guard = "exit"
         => /\ pc = "exited"
            /\ exit_code = 1
            /\ child = NotSpawned
            /\ child_argv = <<>>
            /\ config_paths = <<>> /\ protected_paths = <<>> /\ lines_read = 0
            /\ args = <<>> /\ filtered_args = <<>>
    /\ child = SpawnFailed
         => /\ pc = "exited"
            /\ exit_code = 1
            /\ child_argv = <<>>

\* rm could not be spawned although arguments were left to forward.
C9_Witness ==
    /\ child = SpawnFailed
    /\ filtered_args # <<>>
    /\ exit_code = 1

\* C10: normalize_path applied to its own result gives that result again.
C10_NormalizeIdempotent ==
    Len(norm_st.out) = 2 => norm_st.out[2] = norm_st.out[1]

\* A link reached through a linked directory by a pathname with "..": it
\* exists, and its normalized form differs from the pathname.
C10_Witness ==
    /\ Len(norm_st.out) = 2
    /\ IsLink(fs, norm_st.arg)
    /\ ".." \in Range(norm_st.arg.segs)
    /\ "t" \in Range(norm_st.arg.segs)
    /\ norm_st.out[1] # norm_st.arg
    /\ norm_st.out[1].abs

\* The paths of the readable matches of an enumeration, in its order.
RECURSIVE OkPaths(_)
OkPaths(entries) ==
    IF entries = <<>> THEN <<>>
    ELSE (IF Head(entries).ok THEN <<Head(entries).path>> ELSE <<>>) \o OkPaths(Tail(entries))

\* What one line yields when it is taken by itself.
LineYield(f, line) ==
    IF line.ok /\ line.valid THEN OkPaths(glob(f, line.pat)) ELSE <<>>

RECURSIVE LinesYield(_, _)
LinesYield(f, lines) ==
    IF lines = <<>> THEN <<>> ELSE LineYield(f, Head(lines)) \o LinesYield(f, Tail(lines))

\* What the files yield, one after the other; a file that is missing or
\* cannot be opened yields nothing.
RECURSIVE FilesYield(_, _)
FilesYield(f, files) ==
    IF files = <<>> THEN <<>>
    ELSE (IF Head(files).exists /\ Head(files).readable
          THEN LinesYield(f, Head(files).lines) ELSE <<>>)
         \o FilesYield(f, Tail(files))

EmptyString == Str(FALSE, <<>>, FALSE)
Flag == Str(FALSE, <<"-h">>, FALSE)
MissingName == Str(FALSE, <<"usr">>, FALSE)

\* C12: normalize_path always returns a pathname.  When nothing is at the
\* argument, not even a link (it does not exist, or a link loop or a file
\* used as a directory makes it unreachable), the result is the argument as
\* it was given; the result differs from the argument only when it is the
\* absolute pathname of an entry that is there.  The empty string, a flag
\* and a missing relative name come back unchanged.
C12_NormalizeNeverFails ==
    Len(norm_st.out) >= 1 =>
        LET arg == norm_st.arg
            out == norm_st.out[1]
        IN  /\ out # NoPath
            /\ out \in [abs : BOOLEAN, segs : Seq(SegNames), trail : BOOLEAN]
            /\ Locate(fs, arg, FALSE) = NoEntry => out = arg
            /\ out # arg => out.abs /\ Locate(fs, out, FALSE) # NoEntry
            /\ arg \in {EmptyString, Flag, MissingName} => out = arg

\* A pathname through a link that leads nowhere, with a trailing separator
\* and a flag-like name in it, was normalized: it came back as given.
C12_Witness ==
    /\ Len(norm_st.out) >= 1
    /\ norm_st.arg = Str(FALSE, <<"l", "-h">>, TRUE)
    /\ <<"tmp", "l">> \in DOMAIN fs
    /\ canonicalize(fs, Str(FALSE, <<"l">>, FALSE)) = NoPath
    /\ norm_st.out[1] = norm_st.arg

\* C13 (as claimed): once 256 readable matches have been collected
\* parse_line has stopped enumerating, has printed the truncation notice
\* and has returned the 256 paths, also when the pattern matches exactly
\* 256 entries.
C13_StopsAtBudget ==
    glob_st.yielded >= 256
        => /\ glob_st.st.returned
           /\ glob_st.st.truncated
           /\ glob_st.st.paths = FirstMatches(256)

\* C13 (amended): parse_line goes on enumerating until the enumeration
\* ends or yields a 257th readable match.  The notice is printed on that
\* 257th match and only then, and the first 256 paths are returned; an
\* enumeration that ends after at most 256 readable matches, exactly 256
\* included, gets all of them returned and no notice.
C13_StopsAfterBudget ==
    /\ (glob_st.yielded <= 256 /\ ~glob_st.ended) => ~glob_st.st.returned
    /\ glob_st.st.truncated <=> glob_st.yielded = 257
    /\ glob_st.yielded = 257
         => glob_st.st.returned /\ ~glob_st.ended /\ glob_st.st.paths = FirstMatches(256)
    /\ glob_st.ended
         => /\ glob_st.yielded <= 256
            /\ ~glob_st.st.truncated
            /\ glob_st.st.paths = FirstMatches(glob_st.yielded)

\* The enumeration ended after exactly 256 readable matches: all were
\* returned and no notice was printed.
C13_Witness ==
    /\ glob_st.ended
    /\ glob_st.yielded = 256
    /\ glob_st.st.returned
    /\ ~glob_st.st.truncated
    /\ Len(glob_st.st.paths) = 256

\* C14 (as claimed): every entry of the list read_config_files returns from
\* configuration files that names something existing is its own normalized
\* form.
C14_EntriesCanonical ==
    (pc = "loaded" /\ config_paths # <<>>)
        => \A e \in Range(protected_paths) :
               Locate(fs, FromComponents(e), FALSE) # NoEntry
                   => normalize_path(fs, FromComponents(e)) = FromComponents(e)

\* run has returned: the process ended, and not by the guard.
RunReturned == pc = "exited" /\ guard # "exit"

\* C15: run calls Command::status() exactly once, after filter_arguments
\* is done.  Nothing is spawned while run is still at work, a returned run
\* has spawned (or failed to spawn) rm whatever was left of the arguments,
\* the outcome of the one spawn never changes afterwards, and the step that
\* spawns leaves the arguments and the filtered arguments as they are.
\* When every argument was dropped, rm was started with no argument and
\* the exit code it ended with is what run returned.
C15_SpawnsExactlyOnce ==
    /\ [](~RunReturned => child = NotSpawned /\ child_argv = <<>>)
    /\ [](RunReturned => child # NotSpawned)
    /\ []((RunReturned /\ filtered_args = <<>> /\ child.kind = "exited")
            => child_argv = <<>> /\ exit_code = child.code)
    /\ [][child # NotSpawned => child' = child /\ child_argv' = child_argv]_vars
    /\ [][child' # child
            => /\ pc = "filter" /\ pc' = "exited"
               /\ args' = args /\ filtered_args' = filtered_args]_vars

\* Two arguments were given and both dropped as protected; rm ran without
\* arguments, ended with 2, and 2 is the exit code.
C15_Witness ==
    /\ pc = "exited"
    /\ Len(args) = 2
    /\ filtered_args = <<>>
    /\ child = Exited(2)
    /\ child_argv = <<>>
    /\ exit_code = 2

\* C16: when the guard returns an error (REAL_RM or the running executable
\* could not be resolved) main goes on: the process ends only after the
\* configuration was loaded, the arguments were filtered and rm was spawned
\* with what the filter kept, and its exit code is what run returns for the
\* spawn's outcome, not the guard's 1.
C16_GuardErrorGoesOn ==
    guard = "err"
        => /\ pc # "main"
           /\ pc = "exited"
                => /\ protected_paths # <<>>
                   /\ child # NotSpawned
                   /\ Len(filtered_args) = Cardinality(KeptPositions)
                   /\ Spawned => child_argv = filtered_args
                   /\ exit_code = IF child.kind = "exited" THEN child.code ELSE 1

\* The guard returned an error, an argument was dropped and another was
\* forwarded, rm exited with 0 and so did the process.
C16_Witness ==
    /\ guard = "err"
    /\ pc = "exited"
    /\ Len(args) = 2
    /\ Len(child_argv) = 1
    /\ child = Exited(0)
    /\ exit_code = 0

====
